---- MODULE Spec2Model ----
(***************************************************************************)
(* A model of three parts of SceneJS:                                      *)
(*   - SceneJS_eventModule (events/eventsModule.js): the priority-ordered  *)
(*     synchronous event bus;                                              *)
(*   - the morphGeometry backend (morphGeometry/morphGeometry.js): the     *)
(*     per-canvas morph caches, the morph stack and the render-phase       *)
(*     key-frame evaluation, and the morphGeometry node type;              *)
(*   - the camera node type (transformation/camera/camera.js): its optics, *)
(*     the memoized projection transform and the projection stack.         *)
(* Numbers that are fractions in the source (keys, factors) are modelled   *)
(* as integers in tenths; a quotient is kept as the pair <<num, den>>.     *)
(***************************************************************************)
EXTENDS Integers, Sequences, FiniteSets, TLC

(***************************************************************************)
(* Bounds of the model.                                                    *)
(***************************************************************************)
MaxHandlers == 3      \* addListener calls in one behaviour
MaxPriority == 1      \* explicit priorities are drawn from -1..MaxPriority
MaxMorphs == 2        \* morph objects registered in one behaviour
MaxBuffers == 6       \* array buffers allocated in one behaviour
MaxDepth == 2         \* pushes on the morph stack
MaxUnderflow == 1     \* pops below an empty morph stack
MaxKey == 2           \* keys are drawn from 0..MaxKey, factors from -1..MaxKey+1

(***************************************************************************)
(* Program constants: the event types used here.                           *)
(***************************************************************************)
RESET == 2
SCENE_COMPILING == 5

EventTypes == {RESET, SCENE_COMPILING}

Undefined == "undefined"
Null == "null"

VARIABLES
    events,       \* eventsModule.js: events[type], the handler list of each type
    nextCommand,  \* registration counter: the identity of the next command
    callStack,    \* the fireEvent activations in progress, outermost first
    done,         \* the fireEvent activation that ended last
    canvas,       \* morphGeometry.js: the currently active canvas (its canvasId)
    canvasMorphs, \* the morph map of each canvas: canvasId -> (resource -> entry)
    currentMorphs,\* the canvasId whose morph map is current, or Null
    idStack,      \* node ids, by stack index
    morphStack,   \* morph objects, by stack index
    stackLen,
    dirty,
    heap,         \* the morph objects created so far; an object is its index
    buffers,      \* for each array buffer created, how often destroy() was called
    document,     \* the canvasIds document.getElementById finds
    handles,      \* the handles create has returned
    shader,       \* the last call of SceneJS_renderModule.setMorph
    nodes,        \* the morphGeometry nodes: their attributes and this._handle
    loads,        \* the stream loads in flight, each with its continuation's closure
    compileStack, \* the nodes between their _preCompile and their _postCompile
    camera,       \* camera.js: the camera node: attr.optics, _compileMemoLevel, _transform
    projection,   \* the transforms pushed on SceneJS_projectionModule, outermost first
    last          \* the operation of the morph module that ran last, and how it ended

eventVars == <<events, nextCommand, callStack, done>>
stackVars == <<idStack, morphStack, stackLen, dirty>>
morphVars == <<canvas, canvasMorphs, currentMorphs, idStack, morphStack, stackLen,
               dirty, heap, buffers, document, handles, shader, last>>
nodeVars == <<nodes, loads, compileStack>>
cameraVars == <<camera, projection>>
vars == <<events, nextCommand, callStack, done, canvas, canvasMorphs, currentMorphs,
          idStack, morphStack, stackLen, dirty, heap, buffers, document, handles,
          shader, last, nodes, loads, compileStack, camera, projection>>

(***************************************************************************)
(* Sequence helpers.                                                       *)
(***************************************************************************)
InsertAt(s, k, e) ==
    \* s with e spliced in so that it becomes element k+1 (JavaScript index k)
    SubSeq(s, 1, k) \o <<e>> \o SubSeq(s, k + 1, Len(s))

Range(s) == {s[k] : k \in 1..Len(s)}

Last(s) == s[Len(s)]

(***************************************************************************)
(* SceneJS_eventModule.addListener                                         *)
(***************************************************************************)
\* A priority argument is [given |-> FALSE] (undefined) or
\* [given |-> TRUE, value |-> p].
NoPriority == [given |-> FALSE, value |-> 0]
Priorities ==
    {NoPriority} \cup {[given |-> TRUE, value |-> p] : p \in -1..MaxPriority}

\* lines 80-84: events[type], created empty when missing. A slot that was never
\* created is kept as the empty list: fireEvent does nothing for either.
ListOf(type) == events[type]

\* line 87: priority defaults to the number of handlers already registered
HandlerPriority(list, priority) ==
    IF priority.given THEN priority.value ELSE Len(list)

\* lines 89-95: the JavaScript index the handler is spliced in at: before the
\* first handler with a greater priority, else at the end
InsertIndex(list, priority) ==
    LET greater == {k \in 1..Len(list) : list[k].priority > priority}
    IN  IF greater = {} THEN Len(list)
        ELSE (CHOOSE k \in greater : \A j \in greater : k <= j) - 1

\* lines 85-95
AddToList(list, command, priority) ==
    LET handler == [command |-> command,
                    priority |-> HandlerPriority(list, priority)]
    IN  InsertAt(list, InsertIndex(list, handler.priority), handler)

\* Code runs either at top level or inside the callback on top of the stack.
Running == IF callStack = <<>> THEN TRUE ELSE Last(callStack).inCall

ActiveTypes == {callStack[k].type : k \in 1..Len(callStack)}

\* addListener(type, command, priority), with a fresh command
AddListener(type, priority) ==
    /\ Running
    /\ nextCommand <= MaxHandlers
    /\ events' = [events EXCEPT ![type] = AddToList(ListOf(type), nextCommand, priority)]
    /\ nextCommand' = nextCommand + 1
    /\ callStack' = [k \in 1..Len(callStack) |->
                        IF callStack[k].type = type
                        THEN [callStack[k] EXCEPT !.added = @ \cup {nextCommand}]
                        ELSE callStack[k]]
    /\ UNCHANGED <<done, morphVars, nodeVars, cameraVars>>

(***************************************************************************)
(* SceneJS_eventModule.fireEvent, one step per loop test, callback entry   *)
(* and callback exit.                                                      *)
(***************************************************************************)
Commands(list) == [k \in 1..Len(list) |-> list[k].command]

NoDispatch ==
    [type |-> 0, start |-> <<>>, called |-> <<>>, added |-> {}, threw |-> FALSE]

Finished(frame, threw) ==
    [type |-> frame.type, start |-> frame.start, called |-> frame.called,
     added |-> frame.added, threw |-> threw]

\* lines 102-107: fireEvent(type) is entered, i = 0. A callback does not fire
\* the type it is called for (that recursion would not end).
FireEvent(type) ==
    /\ Running
    /\ type \notin ActiveTypes
    /\ UNCHANGED <<events, nextCommand>>
    /\ callStack' = Append(callStack,
                           [type |-> type, i |-> 0, inCall |-> FALSE,
                            start |-> Commands(events[type]),
                            called |-> <<>>, added |-> {}])
    /\ UNCHANGED <<done, morphVars, nodeVars, cameraVars>>

\* line 107: the loop test, read from the live list at every iteration
LoopContinues(frame) == frame.i < Len(events[frame.type])

\* line 108: the handler the loop calls now
CurrentHandler(frame) == events[frame.type][frame.i + 1]

\* line 108: list[i].command(params) is called
CallCommand ==
    /\ callStack # <<>>
    /\ LET frame == Last(callStack) IN
        /\ ~frame.inCall
        /\ LoopContinues(frame)
        /\ callStack' = [callStack EXCEPT ![Len(callStack)] =
                            [frame EXCEPT !.inCall = TRUE,
                                          !.called = Append(@, CurrentHandler(frame).command)]]
    /\ UNCHANGED <<events, nextCommand, done, morphVars, nodeVars, cameraVars>>

\* line 107: the command returned; i++
CommandReturns ==
    /\ callStack # <<>>
    /\ LET frame == Last(callStack) IN
        /\ frame.inCall
        /\ callStack' = [callStack EXCEPT ![Len(callStack)] =
                            [frame EXCEPT !.inCall = FALSE, !.i = @ + 1]]
    /\ UNCHANGED <<events, nextCommand, done, morphVars, nodeVars, cameraVars>>

\* A bus that unregisters the handler that threw (the source has no such step)
CommandThrowsUnregisters ==
    /\ callStack # <<>>
    /\ LET frame == Last(callStack) IN
        /\ frame.inCall
        /\ done' = Finished(frame, TRUE)
        /\ callStack' = SubSeq(callStack, 1, Len(callStack) - 1)
        /\ events' = [events EXCEPT ![frame.type] =
                         SelectSeq(@, LAMBDA h : h.command # Last(frame.called))]
    /\ UNCHANGED <<nextCommand, morphVars, nodeVars, cameraVars>>

\* line 108: the command threw; fireEvent has no handler, so the exception leaves
\* this activation (its caller, when a callback, may catch it or throw on)
CommandThrows ==
    /\ callStack # <<>>
    /\ LET frame == Last(callStack) IN
        /\ frame.inCall
        /\ done' = Finished(frame, TRUE)
        /\ callStack' = SubSeq(callStack, 1, Len(callStack) - 1)
    /\ UNCHANGED <<events, nextCommand, morphVars, nodeVars, cameraVars>>

\* lines 107, 111: the loop test fails and fireEvent returns
FireReturns ==
    /\ callStack # <<>>
    /\ LET frame == Last(callStack) IN
        /\ ~frame.inCall
        /\ ~LoopContinues(frame)
        /\ done' = Finished(frame, FALSE)
        /\ callStack' = SubSeq(callStack, 1, Len(callStack) - 1)
    /\ UNCHANGED <<events, nextCommand, morphVars, nodeVars, cameraVars>>

EventInit ==
    /\ events = [t \in EventTypes |-> <<>>]
    /\ nextCommand = 1
    /\ callStack = <<>>
    /\ done = NoDispatch

EventNext ==
    \/ \E t \in EventTypes, p \in Priorities : AddListener(t, p)
    \/ \E t \in EventTypes : FireEvent(t)
    \/ CallCommand
    \/ CommandReturns
    \/ CommandThrows
    \/ FireReturns

(***************************************************************************)
(* The morphGeometry backend: canvases, sources and buffers.               *)
(***************************************************************************)
CanvasIds == {"c1", "c2"}
NodeIds == {"n1", "n2"}

\* A resource id is <<prefix, number>>; <<"", 0>> stands for a resource argument
\* that is null, undefined or "" (line 150: !resource).
NoResource == <<"", 0>>
ExplicitResources == {<<"r", 1>>}

\* An entry of a morph map: a morph object, or null (line 137).
NullEntry == [isNull |-> TRUE, morph |-> 0]
MorphEntry(m) == [isNull |-> FALSE, morph |-> m]

\* The buffer of each data array, in the order _createMorph allocates them
\* (lines 208-223).
Channels == <<"positions", "normals", "uv", "uv2">>
BufferOf(channel) ==
    CASE channel = "positions" -> "vertexBuf"
      [] channel = "normals" -> "normalBuf"
      [] channel = "uv" -> "uvBuf"
      [] channel = "uv2" -> "uvBuf2"

ChannelIndex(channel) == CHOOSE k \in 1..Len(Channels) : Channels[k] = channel

\* A source is [keys, targets]; a target is the set of its non-empty data arrays.
\* The number of buffers the targets before target i ask for:
RECURSIVE AllocsBefore(_, _)
AllocsBefore(source, i) ==
    IF i <= 1 THEN 0
    ELSE AllocsBefore(source, i - 1) + Cardinality(source.targets[i - 1])

NumAllocs(source) == AllocsBefore(source, Len(source.targets) + 1)

\* The position of target i's channel among the allocations of one create
AllocIndex(source, i, channel) ==
    AllocsBefore(source, i)
        + Cardinality({c \in source.targets[i] : ChannelIndex(c) <= ChannelIndex(channel)})

\* lines 204-224: morph.targets after the first n allocations succeeded, the
\* buffers numbered from base + 1; `all` when the loop ran to its end, else the
\* last target is the one whose allocation threw
TargetsBuilt(source, n, base, all) ==
    LET started == IF all THEN Len(source.targets)
                   ELSE CHOOSE i \in 1..Len(source.targets) :
                            /\ AllocsBefore(source, i) <= n
                            /\ n < AllocsBefore(source, i + 1)
    IN  [i \in 1..started |->
            LET got == {c \in source.targets[i] : AllocIndex(source, i, c) <= n}
            IN  [b \in {BufferOf(c) : c \in got} |->
                    base + AllocIndex(source, i,
                               CHOOSE c \in got : BufferOf(c) = b)]]

\* lines 121-132, 236-247: the buffers of one target
TargetBuffers(target) == {target[b] : b \in DOMAIN target}

\* MorphBuffers with the loop of line 119 ending one target early
MorphBuffersButLast(morph) ==
    UNION {TargetBuffers(morph.targets[i]) : i \in 1..(Len(morph.targets) - 1)}

\* lines 119-133: the buffers destroyMorph calls destroy() on
MorphBuffers(morph) ==
    UNION {TargetBuffers(morph.targets[i]) : i \in 1..Len(morph.targets)}

\* RollbackBuffers that passes over the target whose allocation threw
RollbackButLast(targets) ==
    UNION {TargetBuffers(targets[i]) : i \in 1..(Len(targets) - 1)}

\* lines 234-248: the buffers the catch block of _createMorph calls destroy() on
RollbackBuffers(targets) ==
    UNION {TargetBuffers(targets[i]) : i \in 1..Len(targets)}

Destroyed(bufs, set) ==
    [b \in 1..Len(bufs) |-> IF b \in set THEN bufs[b] + 1 ELSE bufs[b]]

Tracked(canvasId) == canvasId \in DOMAIN canvasMorphs

\* morphs[resource] is a morph object (neither undefined nor null)
Registered(morphs, resource) ==
    IF resource \in DOMAIN morphs THEN ~morphs[resource].isNull ELSE FALSE

MorphInit ==
    /\ canvas = Undefined
    /\ canvasMorphs = [c \in {} |-> <<>>]
    /\ currentMorphs = Null
    /\ idStack = [k \in {} |-> ""]
    /\ morphStack = [k \in {} |-> 0]
    /\ stackLen = 0
    /\ dirty = FALSE        \* undefined in the source; read only by if (dirty)
    /\ heap = <<>>
    /\ buffers = <<>>
    /\ document = CanvasIds
    /\ handles = {}
    /\ shader = [args |-> "never"]
    /\ last = [op |-> "init", result |-> "ok"]

\* The SCENE_COMPILING listener with the test of line 18 left out: the map of the
\* canvas is made anew at every activation.
SceneCompilingAnew(canvasId) ==
    /\ canvas' = canvasId
    /\ canvasMorphs' = [c \in DOMAIN canvasMorphs \cup {canvasId} |->
                          IF c = canvasId THEN [r \in {} |-> NullEntry]
                          ELSE canvasMorphs[c]]
    /\ currentMorphs' = canvasId
    /\ stackLen' = 0
    /\ last' = [op |-> "compiling", result |-> "ok"]
    /\ UNCHANGED <<idStack, morphStack, dirty, heap, buffers, document, handles,
                   shader, eventVars, nodeVars, cameraVars>>

\* lines 15-24: the SCENE_COMPILING listener
SceneCompiling(canvasId) ==
    /\ canvas' = canvasId
    /\ canvasMorphs' = IF Tracked(canvasId) THEN canvasMorphs
                       ELSE (canvasId :> [r \in {} |-> NullEntry]) @@ canvasMorphs
    /\ currentMorphs' = canvasId
    /\ stackLen' = 0
    /\ last' = [op |-> "compiling", result |-> "ok"]
    /\ UNCHANGED <<idStack, morphStack, dirty, heap, buffers, document, handles,
                   shader, eventVars, nodeVars, cameraVars>>

(***************************************************************************)
(* createMorphGeometry and _createMorph                                    *)
(***************************************************************************)
\* SceneJS._createKeyForMap(currentMorphs, "m") (line 151): a key of the form
\* "m" + i that the map does not hold yet.
CreateKeyForMap(keyMap) ==
    LET free == {i \in 0..Cardinality(DOMAIN keyMap) : <<"m", i>> \notin DOMAIN keyMap}
    IN  <<"m", CHOOSE i \in free : \A j \in free : i <= j>>

\* lines 149-163 (targets given) and 186-251. failAt = 0: every allocation
\* succeeds; failAt = k: the k-th new SceneJS_webgl_ArrayBuffer throws.
CreateMorphGeometry(resource, source, failAt) ==
    /\ Len(heap) < MaxMorphs
    /\ Len(buffers) + NumAllocs(source) <= MaxBuffers
    /\ failAt <= NumAllocs(source)
    /\ UNCHANGED <<canvas, currentMorphs, stackVars, document, shader, eventVars,
                   nodeVars, cameraVars>>
    /\ IF canvas \notin CanvasIds
       THEN \* lines 151, 188: currentMorphs and canvas are null
            /\ last' = [op |-> "create", result |-> "TypeError"]
            /\ UNCHANGED <<canvasMorphs, heap, buffers, handles>>
       ELSE LET id == IF resource = NoResource
                      THEN CreateKeyForMap(canvasMorphs[currentMorphs])
                      ELSE resource
                n == IF failAt = 0 THEN NumAllocs(source) ELSE failAt - 1
                targets == TargetsBuilt(source, n, Len(buffers), failAt = 0)
                morph == [canvas |-> canvas, resource |-> id,
                          keys |-> source.keys, targets |-> targets]
                handle == [canvasId |-> canvas, resource |-> id]
                allocated == buffers \o [k \in 1..n |-> 0]
            IN  IF failAt = 0
                THEN \* lines 226-228
                     /\ buffers' = allocated
                     /\ heap' = Append(heap, morph)
                     /\ canvasMorphs' =
                            [canvasMorphs EXCEPT ![currentMorphs] =
                                (id :> MorphEntry(Len(heap) + 1)) @@ @]
                     /\ handles' = handles \cup {handle}
                     /\ last' = [op |-> "create", result |-> "ok", handle |-> handle,
                                 allocated |-> (Len(buffers) + 1)..(Len(buffers) + n)]
                ELSE \* lines 230-250
                     /\ buffers' = Destroyed(allocated, RollbackBuffers(targets))
                     /\ last' = [op |-> "create", result |-> "allocation failure",
                                 handle |-> handle,
                                 allocated |-> (Len(buffers) + 1)..(Len(buffers) + n)]
                     /\ UNCHANGED <<canvasMorphs, heap, handles>>

(***************************************************************************)
(* destroyMorph and destroyMorphGeometry                                   *)
(***************************************************************************)
\* line 117: document.getElementById(morph.canvas.canvasId)
CanvasInDocument(morph) == morph.canvas \in document

\* lines 117-134, for a set of morph objects
BuffersAfterDestroy(morphs) ==
    Destroyed(buffers,
              UNION {MorphBuffers(heap[m]) : m \in {x \in morphs : CanvasInDocument(heap[x])}})

\* MorphsAfterDestroy with line 137 left out: the entry stays
MorphsNotCleared(morphs) == canvasMorphs

\* lines 135-138, for a set of morph objects. A morph object found in a map is
\* found under its own canvas and resource, so that map holds the key.
MorphsAfterDestroy(morphs) ==
    [c \in DOMAIN canvasMorphs |->
        [r \in DOMAIN canvasMorphs[c] |->
            IF \E m \in morphs : heap[m].canvas = c /\ heap[m].resource = r
            THEN NullEntry
            ELSE canvasMorphs[c][r]]]

\* NoMorphs with the test of line 255 left out
NoMorphsNever(handle) == FALSE

\* lines 254-255: !morphs, for morphs = canvasMorphs[handle.canvasId]
NoMorphs(handle) == ~Tracked(handle.canvasId)

\* lines 258-259: morphs[handle.resource] is a morph object
MorphFound(handle) ==
    IF Tracked(handle.canvasId)
    THEN Registered(canvasMorphs[handle.canvasId], handle.resource)
    ELSE FALSE

\* lines 253-263
DestroyMorphGeometry(handle) ==
    /\ UNCHANGED <<canvas, currentMorphs, stackVars, heap, document, handles, shader,
                   eventVars, nodeVars, cameraVars>>
    /\ IF NoMorphs(handle)
       THEN \* lines 255-257
            /\ last' = [op |-> "destroy", result |-> "silent", handle |-> handle]
            /\ UNCHANGED <<canvasMorphs, buffers>>
       ELSE IF ~MorphFound(handle)
       THEN \* lines 259-261
            /\ last' = [op |-> "destroy", result |-> "morph not found",
                        handle |-> handle]
            /\ UNCHANGED <<canvasMorphs, buffers>>
       ELSE LET m == canvasMorphs[handle.canvasId][handle.resource].morph
            IN  /\ buffers' = BuffersAfterDestroy({m})
                /\ canvasMorphs' = MorphsAfterDestroy({m})
                /\ last' = [op |-> "destroy", result |-> "ok", handle |-> handle,
                            morph |-> m]

(***************************************************************************)
(* The RESET listener                                                      *)
(***************************************************************************)
LiveMorphs(canvasId) ==
    {canvasMorphs[canvasId][r].morph :
        r \in {x \in DOMAIN canvasMorphs[canvasId] : ~canvasMorphs[canvasId][x].isNull}}

HasNull(canvasId) ==
    \E r \in DOMAIN canvasMorphs[canvasId] : canvasMorphs[canvasId][r].isNull

\* lines 92-110. A null entry (left by destroyMorph, line 137) makes
\* destroyMorph(morph) read morph.canvas of null: a TypeError leaves the handler.
\* for-in visits the keys in an order the language leaves open, so the morphs
\* destroyed before the error are: all of some canvases without null entries,
\* and some of one canvas with one.
Reset ==
    /\ UNCHANGED <<idStack, morphStack, dirty, heap, document, handles, shader,
                   eventVars, nodeVars, cameraVars>>
    /\ IF \A c \in DOMAIN canvasMorphs : ~HasNull(c)
       THEN LET all == UNION {LiveMorphs(c) : c \in DOMAIN canvasMorphs}
            IN  /\ buffers' = BuffersAfterDestroy(all)
                /\ canvas' = Null
                /\ canvasMorphs' = [c \in {} |-> <<>>]
                /\ currentMorphs' = Null
                /\ stackLen' = 0
                /\ last' = [op |-> "reset", result |-> "ok"]
       ELSE \E bad \in {c \in DOMAIN canvasMorphs : HasNull(c)} :
            \E before \in SUBSET {c \in DOMAIN canvasMorphs : ~HasNull(c)} :
            \E part \in SUBSET LiveMorphs(bad) :
                LET visited == part \cup UNION {LiveMorphs(c) : c \in before}
                IN  /\ buffers' = BuffersAfterDestroy(visited)
                    /\ canvasMorphs' = MorphsAfterDestroy(visited)
                    /\ last' = [op |-> "reset", result |-> "TypeError"]
                    /\ UNCHANGED <<canvas, currentMorphs, stackLen>>

\* The canvas element leaves the document (the environment's step).
RemoveCanvas(canvasId) ==
    /\ canvasId \in document
    /\ document' = document \ {canvasId}
    /\ last' = [op |-> "removeCanvas", result |-> "ok"]
    /\ UNCHANGED <<canvas, canvasMorphs, currentMorphs, stackVars, heap, buffers,
                   handles, shader, eventVars, nodeVars, cameraVars>>

(***************************************************************************)
(* pushMorphGeometry, popMorphGeometry                                     *)
(***************************************************************************)
\* lines 265-272. morph.factor is written on the morph object itself.
PushMorphGeometry(id, handle, factor) ==
    /\ stackLen < MaxDepth
    /\ UNCHANGED <<canvas, canvasMorphs, currentMorphs, buffers, document, handles,
                   shader, eventVars, nodeVars, cameraVars>>
    /\ IF currentMorphs = Null
       THEN /\ last' = [op |-> "push", result |-> "TypeError"]
            /\ UNCHANGED <<stackVars, heap>>
       ELSE IF ~Registered(canvasMorphs[currentMorphs], handle.resource)
       THEN \* line 267: morph is undefined or null
            /\ last' = [op |-> "push", result |-> "TypeError"]
            /\ UNCHANGED <<stackVars, heap>>
       ELSE LET m == canvasMorphs[currentMorphs][handle.resource].morph
            IN  /\ heap' = [heap EXCEPT ![m] = [factor |-> factor] @@ heap[m]]
                /\ idStack' = (stackLen :> id) @@ idStack
                /\ morphStack' = (stackLen :> m) @@ morphStack
                /\ stackLen' = stackLen + 1
                /\ dirty' = TRUE
                /\ last' = [op |-> "push", result |-> "ok"]

\* PopMorphGeometry with line 276 left out: the pop is not marked dirty
PopWithoutDirty ==
    /\ stackLen > -MaxUnderflow
    /\ stackLen' = stackLen - 1
    /\ last' = [op |-> "pop", result |-> "ok"]
    /\ UNCHANGED <<canvas, canvasMorphs, currentMorphs, idStack, morphStack, dirty, heap,
                   buffers, document, handles, shader, eventVars, nodeVars, cameraVars>>

\* lines 274-277
PopMorphGeometry ==
    /\ stackLen > -MaxUnderflow
    /\ stackLen' = stackLen - 1
    /\ dirty' = TRUE
    /\ last' = [op |-> "pop", result |-> "ok"]
    /\ UNCHANGED <<canvas, canvasMorphs, currentMorphs, idStack, morphStack, heap,
                   buffers, document, handles, shader, eventVars, nodeVars, cameraVars>>

(***************************************************************************)
(* The SCENE_RENDERING listener                                            *)
(***************************************************************************)
Max(set) == CHOOSE x \in set : \A y \in set : y <= x
Min(set) == CHOOSE x \in set : \A y \in set : x <= y

\* FindKeys with the scan of line 66 run upwards from 0: the first key below the
\* factor is taken
FindKeysScanUp(keys, ntargets, factor) ==
    LET n == Len(keys)
    IN  IF factor <= keys[1]
        THEN [found |-> TRUE, factor |-> keys[1], key1 |-> 0, key2 |-> 1]
        ELSE IF factor >= keys[n]
        THEN [found |-> TRUE, factor |-> keys[n], key1 |-> n - 2, key2 |-> n - 1]
        ELSE LET below == {i \in 0..(ntargets - 1) :
                              IF i < n THEN factor > keys[i + 1] ELSE FALSE}
             IN  IF below = {}
                 THEN [found |-> FALSE, factor |-> factor, key1 |-> -1, key2 |-> -1]
                 ELSE [found |-> TRUE, factor |-> factor,
                       key1 |-> Min(below), key2 |-> Min(below) + 1]

\* FindKeys with the comparison of line 67 written >= : the scan stops at the
\* first key that is not above the factor
FindKeysScanNotStrict(keys, ntargets, factor) ==
    LET n == Len(keys)
    IN  IF factor <= keys[1]
        THEN [found |-> TRUE, factor |-> keys[1], key1 |-> 0, key2 |-> 1]
        ELSE IF factor >= keys[n]
        THEN [found |-> TRUE, factor |-> keys[n], key1 |-> n - 2, key2 |-> n - 1]
        ELSE LET below == {i \in 0..(ntargets - 1) :
                              IF i < n THEN factor >= keys[i + 1] ELSE FALSE}
             IN  IF below = {}
                 THEN [found |-> FALSE, factor |-> factor, key1 |-> -1, key2 |-> -1]
                 ELSE [found |-> TRUE, factor |-> factor,
                       key1 |-> Max(below), key2 |-> Max(below) + 1]

\* lines 44-74: the (clamped) factor and the target frame key1, key2 (JavaScript
\* indices). The scan of lines 66-72 runs from targets.length - 1 down to 0 and
\* stops at the first key below the factor; keys[i] past the end is undefined,
\* and factor > undefined is false. found = FALSE: key1 and key2 stay undefined.
FindKeys(keys, ntargets, factor) ==
    LET n == Len(keys)
    IN  IF factor <= keys[1]
        THEN [found |-> TRUE, factor |-> keys[1], key1 |-> 0, key2 |-> 1]
        ELSE IF factor >= keys[n]
        THEN [found |-> TRUE, factor |-> keys[n], key1 |-> n - 2, key2 |-> n - 1]
        ELSE LET below == {i \in 0..(ntargets - 1) :
                              IF i < n THEN factor > keys[i + 1] ELSE FALSE}
             IN  IF below = {}
                 THEN [found |-> FALSE, factor |-> factor, key1 |-> -1, key2 |-> -1]
                 ELSE [found |-> TRUE, factor |-> factor,
                       key1 |-> Max(below), key2 |-> Max(below) + 1]

\* line 78: (factor - keys[key1]) / (keys[key2] - keys[key1]) as <<num, den>>.
\* A division by 0 gives NaN or an infinity in JavaScript: the pair keeps den = 0.
\* An undefined key makes the quotient NaN: <<0, 0>>.
NormalizedFactor(keys, frame) ==
    IF frame.found /\ frame.key1 + 1 \in 1..Len(keys) /\ frame.key2 + 1 \in 1..Len(keys)
    THEN <<frame.factor - keys[frame.key1 + 1],
           keys[frame.key2 + 1] - keys[frame.key1 + 1]>>
    ELSE <<0, 0>>

\* lines 81-82: morph.targets[key]; undefined when key is no index of targets
UndefinedTarget == [undefined |-> 0]
TargetAt(targets, key) ==
    IF key + 1 \in 1..Len(targets) THEN targets[key + 1] ELSE UndefinedTarget

\* lines 26-90
SceneRendering ==
    /\ UNCHANGED <<canvas, canvasMorphs, currentMorphs, idStack, morphStack, stackLen,
                   heap, buffers, document, handles, eventVars, nodeVars, cameraVars>>
    /\ IF dirty
       THEN /\ dirty' = FALSE
            /\ last' = [op |-> "rendering", result |-> "ok", calls |-> 1]
            /\ IF stackLen > 0
               THEN LET morph == heap[morphStack[stackLen - 1]]
                        frame == FindKeys(morph.keys, Len(morph.targets), morph.factor)
                    IN  shader' = [args |-> "morph",
                                   id |-> idStack[stackLen - 1],
                                   factor |-> NormalizedFactor(morph.keys, frame),
                                   key1 |-> frame.key1,
                                   key2 |-> frame.key2,
                                   target1 |-> TargetAt(morph.targets, frame.key1),
                                   target2 |-> TargetAt(morph.targets, frame.key2)]
               ELSE shader' = [args |-> "none"]
       ELSE /\ last' = [op |-> "rendering", result |-> "ok", calls |-> 0]
            /\ UNCHANGED <<dirty, shader>>

(***************************************************************************)
(* Inputs and specifications                                               *)
(***************************************************************************)
\* Sources of the life-cycle specification: every data array occurs, in a first
\* or in a later target, and one target has no data.
LifeSources ==
    {[keys |-> <<0, 10>>,
      targets |-> <<{"positions", "normals"}, {"uv", "uv2"}>>],
     [keys |-> <<0, 5, 10>>,
      targets |-> <<{"uv2"}, {}, {"positions"}>>]}

\* Key sequences of the rendering specification: every non-decreasing sequence
\* of 2 or 3 keys over 0..MaxKey, and the keys 0, 0.5, 1 (in tenths).
NonDecreasing(keys) == \A k \in 1..(Len(keys) - 1) : keys[k] <= keys[k + 1]

KeySequences ==
    {keys \in [1..2 -> 0..MaxKey] \cup [1..3 -> 0..MaxKey] : NonDecreasing(keys)}
        \cup {<<0, 5, 10>>}

KeySources ==
    {[keys |-> keys, targets |-> [k \in 1..Len(keys) |-> {"positions"}]] :
        keys \in KeySequences}

Factors == (-1..(MaxKey + 1)) \cup {2, 15}

\* this._handle of a node that has none
NoHandle == [canvasId |-> "", resource |-> NoResource]
NoSource == [keys |-> <<>>, targets |-> <<>>]

\* A node that does not exist (yet). scene: the canvas of the scene the node
\* belongs to; source: the node's params (arrays), what its factory function
\* returns (create), nothing (stream); loaded: the handle came from a stream load.
AbsentNode ==
    [state |-> "absent", kind |-> "", scene |-> "", source |-> NoSource,
     handle |-> NoHandle, loaded |-> FALSE]

NodesInit ==
    /\ nodes = [n \in NodeIds |-> AbsentNode]
    /\ loads = <<>>
    /\ compileStack = <<>>

(***************************************************************************)
(* The camera node: optics records, transforms and the state before _init. *)
(* Numbers are in tenths: 0.1 is 1, 1.0 is 10, 60.0 is 600.                *)
(***************************************************************************)
\* lines 19, 29, 39: the optics types setOptics accepts
OpticsTypes == {"perspective", "ortho", "frustum"}

\* lines 22-27, 32-37 and 42-45: the fields of an optics record of each type
BoxFields == {"left", "right", "bottom", "top", "near", "far"}
PerspectiveFields == {"fovy", "aspect", "near", "far"}
FieldsOf(type) == IF type = "perspective" THEN PerspectiveFields ELSE BoxFields

\* lines 13-16, 22-27, 32-37, 42-45: the default of each field
Default(type, field) ==
    IF type = "perspective"
    THEN CASE field = "fovy" -> 600
           [] field = "aspect" -> 10
           [] field = "near" -> 1
           [] field = "far" -> 50000
    ELSE CASE field = "left" -> -10
           [] field = "bottom" -> -10
           [] field = "near" -> 1
           [] field = "right" -> 10
           [] field = "top" -> 10
           [] field = "far" -> 50000

\* An optics argument is undefined (given = FALSE) or an object with a type
\* ("" when it has none) and the numeric fields it supplies.
NoFields == [f \in {} |-> 0]
NoOptics == [given |-> FALSE, type |-> "", fields |-> NoFields]

\* lines 11-17: the optics of a camera made without any
DefaultOptics ==
    [type |-> "perspective",
     fields |-> [f \in PerspectiveFields |-> Default("perspective", f)]]

\* this.attr.optics and this._transform before they are assigned
NoAttr == [type |-> "", fields |-> NoFields]
NoMatrix == [fn |-> "", args |-> <<>>]
NoTransform == [type |-> "", optics |-> NoFields, matrix |-> NoMatrix]

\* The camera before its construction. `changed` and `returned` record the
\* calls: whether setOptics succeeded since the last getMatrix or _preCompile,
\* and the matrix these returned or pushed last.
CameraAbsent ==
    [state |-> "absent", optics |-> NoAttr, memo |-> 0, transform |-> NoTransform,
     changed |-> FALSE, returned |-> NoMatrix]

CameraInit0 ==
    /\ camera = CameraAbsent
    /\ projection = <<>>

Init == EventInit /\ MorphInit /\ NodesInit /\ CameraInit0

EventSpec == Init /\ [][EventNext]_vars

\* The exception specification: handlers of RESET are registered with any
\* priority, handlers of SCENE_COMPILING without one; dispatches nest, return and
\* throw as in the event specification.
ThrowNext ==
    \/ \E p \in Priorities : AddListener(RESET, p)
    \/ AddListener(SCENE_COMPILING, NoPriority)
    \/ \E t \in EventTypes : FireEvent(t)
    \/ CallCommand
    \/ CommandReturns
    \/ CommandThrows
    \/ FireReturns

ThrowSpec == Init /\ [][ThrowNext]_vars

\* The life-cycle specification: two canvases, creates with generated and with
\* explicit resource ids that succeed or fail at any allocation, destroys through
\* the handles returned, resets, and canvases that leave the document.
MorphNext ==
    \/ \E c \in CanvasIds : SceneCompiling(c)
    \/ \E r \in {NoResource} \cup ExplicitResources, source \in LifeSources,
          failAt \in 0..MaxBuffers : CreateMorphGeometry(r, source, failAt)
    \/ \E h \in handles : DestroyMorphGeometry(h)
    \/ Reset
    \/ \E c \in CanvasIds : RemoveCanvas(c)

MorphSpec == Init /\ [][MorphNext]_vars

\* The rendering specification: one canvas and one morph, of any of the key
\* sequences, pushed with any of the factors by one node, popped, rendered,
\* destroyed and reset.
RenderNext ==
    \/ SceneCompiling("c1")
    \/ \E source \in KeySources :
          handles = {} /\ CreateMorphGeometry(NoResource, source, 0)
    \/ \E h \in handles, factor \in Factors : PushMorphGeometry("n1", h, factor)
    \/ PopMorphGeometry
    \/ SceneRendering
    \/ \E h \in handles : DestroyMorphGeometry(h)
    \/ Reset

RenderSpec == Init /\ [][RenderNext]_vars

\* Key sequences with interior keys: every non-decreasing sequence of 4 keys over
\* 0..MaxKey.
TieSequences == {keys \in [1..4 -> 0..MaxKey] : NonDecreasing(keys)}

TieSources ==
    {[keys |-> keys, targets |-> [k \in 1..Len(keys) |-> {"positions"}]] :
        keys \in TieSequences}

\* The specification of the interior scan: one morph of four keys, pushed with
\* any of the factors, popped and rendered.
TieNext ==
    \/ SceneCompiling("c1")
    \/ \E source \in TieSources :
          handles = {} /\ CreateMorphGeometry(NoResource, source, 0)
    \/ \E h \in handles, factor \in Factors : PushMorphGeometry("n1", h, factor)
    \/ PopMorphGeometry
    \/ SceneRendering

TieSpec == Init /\ [][TieNext]_vars

\* line 413: a node pushes its own id with its own attr.factor. The factors of
\* the two nodes select different target frames.
AttrFactor(id) == IF id = "n1" THEN 0 ELSE MaxKey

\* The stack specification: two nodes push the one morph, each with its own
\* factor, nested or one after the other, pop and render.
StackNext ==
    \/ SceneCompiling("c1")
    \/ \E source \in KeySources :
          handles = {} /\ CreateMorphGeometry(NoResource, source, 0)
    \/ \E h \in handles, id \in NodeIds : PushMorphGeometry(id, h, AttrFactor(id))
    \/ PopMorphGeometry
    \/ SceneRendering

StackSpec == Init /\ [][StackNext]_vars

\* The surface specification: both canvases are activated in any order, morphs
\* are created and destroyed in the current one, and one node pushes and pops.
SurfaceSource == [keys |-> <<0, MaxKey>>, targets |-> <<{"positions"}, {"positions"}>>]

SurfaceNext ==
    \/ \E c \in CanvasIds : SceneCompiling(c)
    \/ CreateMorphGeometry(NoResource, SurfaceSource, 0)
    \/ \E h \in handles : PushMorphGeometry("n1", h, 0)
    \/ stackLen > 0 /\ PopMorphGeometry
    \/ \E h \in handles : DestroyMorphGeometry(h)

SurfaceSpec == Init /\ [][SurfaceNext]_vars

(***************************************************************************)
(* The morphGeometry node type                                             *)
(***************************************************************************)
MaxLoads == 1         \* stream loads in flight

\* lines 294-305: the two tests of _setMorph
ValidConfig(params) ==
    /\ Len(params.targets) >= 2
    /\ Len(params.keys) = Len(params.targets)

\* lines 310-346: a data array some target has becomes the default of the
\* targets that lack it
WithDefaults(targets) ==
    [i \in 1..Len(targets) |-> UNION {targets[k] : k \in 1..Len(targets)}]

\* lines 293-350: this.attr after _setMorph(params)
SetMorph(params) == [keys |-> params.keys, targets |-> WithDefaults(params.targets)]

\* What nodes are made of, what factories return and what the loader delivers:
\* two targets and two keys, one target and one key, two targets and three keys.
NodeSources ==
    {[keys |-> <<0, 10>>, targets |-> <<{"positions"}, {}>>],
     [keys |-> <<0>>, targets |-> <<{"positions"}>>],
     [keys |-> <<0, 5, 10>>, targets |-> <<{"positions"}, {"positions"}>>]}

\* lines 281-291: _init(params) of a node of the scene drawn on canvas `scene`
MorphGeometryInit(n, kind, scene, params) ==
    /\ compileStack = <<>>
    /\ nodes[n].state = "absent"
    /\ UNCHANGED <<canvas, canvasMorphs, currentMorphs, stackVars, heap, buffers,
                   document, handles, shader, loads, compileStack, eventVars, cameraVars>>
    /\ IF kind = "arrays" /\ ~ValidConfig(params)
       THEN \* lines 296, 302: _setMorph throws, no node
            /\ last' = [op |-> "init", result |-> "config error", node |-> n]
            /\ UNCHANGED nodes
       ELSE /\ nodes' = [nodes EXCEPT ![n] =
                    [state |-> "live", kind |-> kind, scene |-> scene,
                     source |-> IF kind = "arrays" THEN SetMorph(params)
                                ELSE IF kind = "create" THEN params ELSE NoSource,
                     handle |-> NoHandle, loaded |-> FALSE]]
            /\ last' = [op |-> "init", result |-> "ok", node |-> n]

\* A compile pass is in progress: it began with SCENE_COMPILING and no exception
\* and no step from outside the traversal ended it.
PassActive ==
    /\ last.op \in {"compiling", "preCompile", "postCompile"}
    /\ last.result = "ok"

\* lines 186-228, every allocation succeeding: the morph object of createMorph
NewMorph(id, data) ==
    [canvas |-> canvas, resource |-> id, keys |-> data.keys,
     targets |-> TargetsBuilt(data, NumAllocs(data), Len(buffers), TRUE)]

\* line 151 (resource is this._resource, which nothing assigns)
NewResource == CreateKeyForMap(canvasMorphs[currentMorphs])

\* An exception leaves _preCompile and the traversal above it.
PreCompileThrows(n, result) ==
    /\ compileStack' = <<>>
    /\ last' = [op |-> "preCompile", result |-> result, node |-> n]
    /\ UNCHANGED <<canvasMorphs, stackVars, heap, buffers, handles, nodes, loads>>

\* lines 412-414 for a node that holds a handle already
PushHeld(n) ==
    LET handle == nodes[n].handle
    IN  IF ~Registered(canvasMorphs[currentMorphs], handle.resource)
        THEN \* line 267: morph is undefined or null
             PreCompileThrows(n, "TypeError")
        ELSE LET m == canvasMorphs[currentMorphs][handle.resource].morph
             IN  /\ heap' = [heap EXCEPT ![m] = [factor |-> AttrFactor(n)] @@ heap[m]]
                 /\ idStack' = (stackLen :> n) @@ idStack
                 /\ morphStack' = (stackLen :> m) @@ morphStack
                 /\ stackLen' = stackLen + 1
                 /\ dirty' = TRUE
                 /\ compileStack' = Append(compileStack, n)
                 /\ last' = [op |-> "preCompile", result |-> "ok", node |-> n,
                             created |-> FALSE, pushed |-> TRUE]
                 /\ UNCHANGED <<canvasMorphs, buffers, handles, nodes, loads>>

\* lines 389-392 and 408-410, then 412-414: the morph is created from the node's
\* data and pushed
CreateAndPush(n) ==
    LET params == nodes[n].source
        attr == IF nodes[n].kind = "create" THEN SetMorph(params) ELSE params
        id == NewResource
        m == Len(heap) + 1
        handle == [canvasId |-> canvas, resource |-> id]
    IN  IF nodes[n].kind = "create" /\ ~ValidConfig(params)
        THEN \* line 391: _setMorph throws
             PreCompileThrows(n, "config error")
        ELSE /\ Len(heap) < MaxMorphs
             /\ Len(buffers) + NumAllocs(attr) <= MaxBuffers
             /\ buffers' = buffers \o [k \in 1..NumAllocs(attr) |-> 0]
             /\ heap' = Append(heap, [factor |-> AttrFactor(n)] @@ NewMorph(id, attr))
             /\ canvasMorphs' = [canvasMorphs EXCEPT ![currentMorphs] =
                                    (id :> MorphEntry(m)) @@ @]
             /\ handles' = handles \cup {handle}
             /\ nodes' = [nodes EXCEPT ![n].handle = handle, ![n].source = attr]
             /\ idStack' = (stackLen :> n) @@ idStack
             /\ morphStack' = (stackLen :> m) @@ morphStack
             /\ stackLen' = stackLen + 1
             /\ dirty' = TRUE
             /\ compileStack' = Append(compileStack, n)
             /\ last' = [op |-> "preCompile", result |-> "ok", node |-> n,
                         created |-> TRUE, pushed |-> TRUE]
             /\ UNCHANGED loads

\* lines 394-407 with 150-158: the load is started with the resource id made now;
\* createMorphGeometry returns nothing and line 412 finds no handle
StartLoad(n) ==
    /\ Len(loads) < MaxLoads
    /\ loads' = Append(loads, [node |-> n, resource |-> NewResource])
    /\ compileStack' = Append(compileStack, n)
    /\ last' = [op |-> "preCompile", result |-> "ok", node |-> n,
                created |-> FALSE, pushed |-> FALSE]
    /\ UNCHANGED <<canvasMorphs, stackVars, heap, buffers, handles, nodes>>

\* lines 384-415: _preCompile of node n, in a pass over the node's scene
PreCompile(n) ==
    /\ PassActive
    /\ nodes[n].state = "live"
    /\ canvas = nodes[n].scene
    /\ n \notin Range(compileStack)
    /\ stackLen < MaxDepth
    /\ UNCHANGED <<canvas, currentMorphs, document, shader, eventVars, cameraVars>>
    /\ IF nodes[n].handle # NoHandle THEN PushHeld(n)
       ELSE IF nodes[n].kind = "stream" THEN StartLoad(n)
       ELSE CreateAndPush(n)

\* lines 417-421: _postCompile of the node compiled last
PostCompile ==
    /\ compileStack # <<>>
    /\ compileStack' = SubSeq(compileStack, 1, Len(compileStack) - 1)
    /\ last' = [op |-> "postCompile", result |-> "ok", node |-> Last(compileStack)]
    /\ IF nodes[Last(compileStack)].handle # NoHandle
       THEN stackLen' = stackLen - 1 /\ dirty' = TRUE
       ELSE UNCHANGED <<stackLen, dirty>>
    /\ UNCHANGED <<canvas, canvasMorphs, currentMorphs, idStack, morphStack, heap,
                   buffers, document, handles, shader, nodes, loads, eventVars, cameraVars>>

\* lines 156-158 and 400-407: the loader calls the continuation of load i with
\* `data`, from outside the traversal. callback(_createMorph(resource, data,
\* options)): the morph is made for the canvas that is current now, then the
\* handle is stored on the node, then nodeUpdated is called.
LoadCompletes(i, data) ==
    /\ compileStack = <<>>
    /\ i \in 1..Len(loads)
    /\ loads' = SubSeq(loads, 1, i - 1) \o SubSeq(loads, i + 1, Len(loads))
    /\ UNCHANGED <<canvas, currentMorphs, stackVars, document, shader, compileStack,
                   eventVars, cameraVars>>
    /\ LET n == loads[i].node
           id == loads[i].resource
           handle == [canvasId |-> canvas, resource |-> id]
       IN  IF canvas \notin CanvasIds
           THEN \* line 188: canvas is null after RESET
                /\ last' = [op |-> "loaded", result |-> "TypeError", node |-> n,
                            notified |-> FALSE]
                /\ UNCHANGED <<canvasMorphs, heap, buffers, handles, nodes>>
           ELSE /\ Len(heap) < MaxMorphs
                /\ Len(buffers) + NumAllocs(data) <= MaxBuffers
                /\ buffers' = buffers \o [k \in 1..NumAllocs(data) |-> 0]
                /\ heap' = Append(heap, NewMorph(id, data))
                /\ canvasMorphs' = [canvasMorphs EXCEPT ![currentMorphs] =
                                       (id :> MorphEntry(Len(heap) + 1)) @@ @]
                /\ handles' = handles \cup {handle}
                /\ nodes' = [nodes EXCEPT ![n].handle = handle, ![n].loaded = TRUE]
                /\ last' = [op |-> "loaded", result |-> "ok", node |-> n,
                            notified |-> TRUE]

\* lines 423-428: _destroy of node n, between passes
NodeDestroy(n) ==
    /\ compileStack = <<>>
    /\ nodes[n].state = "live"
    /\ UNCHANGED <<canvas, currentMorphs, stackVars, heap, document, handles, shader,
                   loads, compileStack, eventVars, cameraVars>>
    /\ LET handle == nodes[n].handle
       IN  IF handle = NoHandle
           THEN /\ nodes' = [nodes EXCEPT ![n].state = "destroyed"]
                /\ last' = [op |-> "nodeDestroy", result |-> "ok", node |-> n,
                            handle |-> handle]
                /\ UNCHANGED <<canvasMorphs, buffers>>
           ELSE IF NoMorphs(handle)
           THEN /\ nodes' = [nodes EXCEPT ![n].state = "destroyed",
                                          ![n].handle = NoHandle]
                /\ last' = [op |-> "nodeDestroy", result |-> "silent", node |-> n,
                            handle |-> handle]
                /\ UNCHANGED <<canvasMorphs, buffers>>
           ELSE IF ~MorphFound(handle)
           THEN \* line 260 throws; line 427 is not reached
                /\ nodes' = [nodes EXCEPT ![n].state = "destroyed"]
                /\ last' = [op |-> "nodeDestroy", result |-> "morph not found",
                            node |-> n, handle |-> handle]
                /\ UNCHANGED <<canvasMorphs, buffers>>
           ELSE LET m == canvasMorphs[handle.canvasId][handle.resource].morph
                IN  /\ buffers' = BuffersAfterDestroy({m})
                    /\ canvasMorphs' = MorphsAfterDestroy({m})
                    /\ nodes' = [nodes EXCEPT ![n].state = "destroyed",
                                              ![n].handle = NoHandle]
                    /\ last' = [op |-> "nodeDestroy", result |-> "ok", node |-> n,
                                handle |-> handle]

\* The scenes a node may belong to: the first node is in the scene of the first
\* canvas, the other in any scene.
ScenesOf(n) == IF n = "n1" THEN {"c1"} ELSE CanvasIds

\* The node specification: two nodes of any kind in the scenes of two canvases;
\* compile passes that begin with SCENE_COMPILING; between the passes the loader
\* delivers data, nodes are destroyed and the framework is reset.
NodeNext ==
    \/ \E c \in CanvasIds : compileStack = <<>> /\ SceneCompiling(c)
    \/ \E n \in NodeIds, kind \in {"arrays", "create", "stream"}, params \in NodeSources :
          \E c \in ScenesOf(n) : MorphGeometryInit(n, kind, c, params)
    \/ \E n \in NodeIds : PreCompile(n)
    \/ PostCompile
    \/ \E i \in 1..MaxLoads, data \in NodeSources : LoadCompletes(i, data)
    \/ \E n \in NodeIds : NodeDestroy(n)
    \/ compileStack = <<>> /\ Reset

NodeSpec == Init /\ [][NodeNext]_vars

(***************************************************************************)
(* The camera node type                                                    *)
(***************************************************************************)
\* lines 22-27, 32-37, 42-45: optics.field || default. The default is taken
\* when the field is not supplied and when the supplied number is 0 (falsy).
OrDefault(optics, field, default) ==
    IF field \in DOMAIN optics.fields
    THEN IF optics.fields[field] # 0 THEN optics.fields[field] ELSE default
    ELSE default

\* lines 20-28, 30-38, 40-46: the record setOptics stores for a type
StoredOptics(optics) ==
    [type |-> optics.type,
     fields |-> [f \in FieldsOf(optics.type) |->
                    OrDefault(optics, f, Default(optics.type, f))]]

\* this._resetCompilationMemos() (line 59): the memo level is 0 again
ResetCompilationMemos(cam) == [cam EXCEPT !.memo = 0]

\* setOptics that stores whatever type it is given and leaves the test of the
\* type to the first use
SetOpticsUnchecked(cam, optics) ==
    [error |-> "",
     cam |-> ResetCompilationMemos(
                [cam EXCEPT !.optics = IF optics.given THEN StoredOptics(optics)
                                       ELSE DefaultOptics])]

\* lines 9-61: the node after setOptics(optics), and the error thrown ("" when
\* none is). Lines 47-57 throw before anything is assigned.
SetOpticsOn(cam, optics) ==
    IF ~optics.given
    THEN [error |-> "",
          cam |-> ResetCompilationMemos([cam EXCEPT !.optics = DefaultOptics])]
    ELSE IF optics.type = "ortho" \/ optics.type = "frustum"
                \/ optics.type = "perspective"
    THEN [error |-> "",
          cam |-> ResetCompilationMemos([cam EXCEPT !.optics = StoredOptics(optics)])]
    ELSE IF optics.type = ""
    THEN [error |-> "ILLEGAL_NODE_CONFIG: optics type not specified", cam |-> cam]
    ELSE [error |-> "ILLEGAL_NODE_CONFIG: optics type not supported", cam |-> cam]

\* SceneJS_math_orthoMat4c, SceneJS_math_frustumMatrix4 and
\* SceneJS_math_perspectiveMatrix4 (lines 111, 130, 147): the matrix is kept as
\* the function and its arguments; perspective takes fovy * PI / 180.
OrthoMat4c(left, right, bottom, top, near, far) ==
    [fn |-> "orthoMat4c", args |-> <<left, right, bottom, top, near, far>>]
FrustumMatrix4(left, right, bottom, top, near, far) ==
    [fn |-> "frustumMatrix4", args |-> <<left, right, bottom, top, near, far>>]
PerspectiveMatrix4(fovyDegrees, aspect, near, far) ==
    [fn |-> "perspectiveMatrix4", args |-> <<<<fovyDegrees, "PI/180">>, aspect, near, far>>]

\* lines 100-153: the transform _rebuild makes of an optics record; none for a
\* type that is not one of the three
TransformOf(optics, old) ==
    LET o == optics.fields
    IN  IF optics.type = "ortho"
        THEN [type |-> optics.type, optics |-> [f \in BoxFields |-> o[f]],
              matrix |-> OrthoMat4c(o.left, o.right, o.bottom, o.top, o.near, o.far)]
        ELSE IF optics.type = "frustum"
        THEN [type |-> optics.type, optics |-> [f \in BoxFields |-> o[f]],
              matrix |-> FrustumMatrix4(o.left, o.right, o.bottom, o.top, o.near, o.far)]
        ELSE IF optics.type = "perspective"
        THEN [type |-> optics.type, optics |-> [f \in PerspectiveFields |-> o[f]],
              matrix |-> PerspectiveMatrix4(o.fovy, o.aspect, o.near, o.far)]
        ELSE old

\* _rebuild with line 154 left out: the memo level stays 0
RebuildWithoutMemo(cam) ==
    IF cam.memo = 0
    THEN [cam EXCEPT !.transform = TransformOf(cam.optics, cam.transform)]
    ELSE cam

\* lines 97-156
Rebuild(cam) ==
    IF cam.memo = 0
    THEN [cam EXCEPT !.transform = TransformOf(cam.optics, cam.transform),
                     !.memo = 1]
    ELSE cam

\* lines 63-71: a copy of the own properties of attr.optics
GetOpticsOf(cam) ==
    [type |-> cam.optics.type,
     fields |-> [key \in DOMAIN cam.optics.fields |-> cam.optics.fields[key]]]

\* The camera steps change nothing of the event bus and the morph module.
CameraFrame ==
    UNCHANGED <<eventVars, nodeVars, canvas, canvasMorphs, currentMorphs, stackVars,
                heap, buffers, document, handles, shader>>

\* lines 5-7: a camera is made with params.optics; an exception of setOptics
\* leaves the constructor, and there is no camera
CameraInit(optics) ==
    /\ camera.state = "absent"
    /\ CameraFrame
    /\ UNCHANGED projection
    /\ LET r == SetOpticsOn(camera, optics)
       IN  IF r.error # ""
           THEN /\ last' = [op |-> "cameraInit", result |-> r.error, supplied |-> optics]
                /\ UNCHANGED camera
           ELSE /\ camera' = [r.cam EXCEPT !.state = "live", !.changed = TRUE]
                /\ last' = [op |-> "cameraInit", result |-> "ok", supplied |-> optics]

\* lines 9-61, called on the camera that exists
SetOptics(optics) ==
    /\ camera.state = "live"
    /\ CameraFrame
    /\ UNCHANGED projection
    /\ LET r == SetOpticsOn(camera, optics)
       IN  IF r.error # ""
           THEN /\ last' = [op |-> "setOptics", result |-> r.error, supplied |-> optics]
                /\ UNCHANGED camera
           ELSE /\ camera' = [r.cam EXCEPT !.changed = TRUE]
                /\ last' = [op |-> "setOptics", result |-> "ok", supplied |-> optics]

\* lines 63-71
GetOptics ==
    /\ camera.state = "live"
    /\ CameraFrame
    /\ UNCHANGED cameraVars
    /\ last' = [op |-> "getOptics", result |-> "ok", optics |-> GetOpticsOf(camera)]

\* lines 73-78. this._transform.matrix of a transform that was never made is a
\* TypeError.
GetMatrix ==
    /\ camera.state = "live"
    /\ CameraFrame
    /\ UNCHANGED projection
    /\ LET cam == IF camera.memo = 0 THEN Rebuild(camera) ELSE camera
           rebuilds == IF camera.memo = 0 THEN 1 ELSE 0
       IN  IF cam.transform = NoTransform
           THEN /\ camera' = cam
                /\ last' = [op |-> "getMatrix", result |-> "TypeError",
                            rebuilds |-> rebuilds]
           ELSE /\ camera' = [cam EXCEPT !.changed = FALSE,
                                         !.returned = cam.transform.matrix]
                /\ last' = [op |-> "getMatrix", result |-> "ok",
                            rebuilds |-> rebuilds, matrix |-> cam.transform.matrix]

\* lines 86-91, once per traversal: the node is not on the stack yet
CameraPreCompile ==
    /\ camera.state = "live"
    /\ projection = <<>>
    /\ CameraFrame
    /\ LET cam == IF camera.memo = 0 THEN Rebuild(camera) ELSE camera
           rebuilds == IF camera.memo = 0 THEN 1 ELSE 0
       IN  /\ projection' = Append(projection, [id |-> "camera", transform |-> cam.transform])
           /\ camera' = [cam EXCEPT !.changed = FALSE,
                                    !.returned = cam.transform.matrix]
           /\ last' = [op |-> "cameraPreCompile", result |-> "ok",
                       rebuilds |-> rebuilds, matrix |-> cam.transform.matrix]

\* lines 93-95
CameraPostCompile ==
    /\ projection # <<>>
    /\ CameraFrame
    /\ UNCHANGED camera
    /\ projection' = SubSeq(projection, 1, Len(projection) - 1)
    /\ last' = [op |-> "cameraPostCompile", result |-> "ok"]

\* The optics the camera is given: none; of every type, of no type and of an
\* unsupported type: no field, one field, or every field, with each value.
OpticsValues == {0, 20}

FieldInputs(type) ==
    {NoFields}
        \cup {[f \in {IF type = "perspective" THEN "fovy" ELSE "left"} |-> v] :
                 v \in OpticsValues}
        \cup {[f \in FieldsOf(type) |-> v] : v \in OpticsValues}

OpticsInputs ==
    {NoOptics}
        \cup UNION {{[given |-> TRUE, type |-> t, fields |-> fs] :
                        fs \in FieldInputs(t)} : t \in OpticsTypes}
        \cup {[given |-> TRUE, type |-> t, fields |-> fs] :
                 t \in {"", "lens"}, fs \in {NoFields, [f \in BoxFields |-> 20]}}

\* The camera specification: a camera is made, its optics are set and read, its
\* matrix is read and it is compiled, in any order.
CameraNext ==
    \/ \E optics \in OpticsInputs : CameraInit(optics)
    \/ \E optics \in OpticsInputs : SetOptics(optics)
    \/ GetOptics
    \/ GetMatrix
    \/ CameraPreCompile
    \/ CameraPostCompile

CameraSpec == Init /\ [][CameraNext]_vars

(***************************************************************************)
(* Claims about the event bus.                                             *)
(***************************************************************************)
\* The fireEvent activations there are to look at: those in progress and the
\* one that ended last.
Dispatches ==
    {[type |-> callStack[k].type, start |-> callStack[k].start,
      called |-> callStack[k].called, added |-> callStack[k].added,
      threw |-> FALSE, ended |-> FALSE] : k \in 1..Len(callStack)}
    \cup (IF done.type \in EventTypes
          THEN {[type |-> done.type, start |-> done.start, called |-> done.called,
                 added |-> done.added, threw |-> done.threw, ended |-> TRUE]}
          ELSE {})

\* The priority a command was registered with (handlers are never removed).
PriorityOf(type, command) ==
    LET list == events[type]
    IN  list[CHOOSE k \in 1..Len(list) : list[k].command = command].priority

Occurrences(s, e) == Cardinality({k \in 1..Len(s) : s[k] = e})

\* Between two handlers called one after the other: priorities do not decrease,
\* and equal priorities are called in registration order (commands are numbered
\* in registration order).
InOrder(d) ==
    \A k \in 1..(Len(d.called) - 1) :
        LET p == PriorityOf(d.type, d.called[k])
            q == PriorityOf(d.type, d.called[k + 1])
        IN  \/ p < q
            \/ p = q /\ d.called[k] <= d.called[k + 1]

\* addListener keeps every handler list in that order, whenever it is called; a
\* handler registered without a priority has the number of handlers registered
\* before it as priority.
ListsSorted ==
    \A t \in EventTypes : \A k \in 1..(Len(events[t]) - 1) :
        \/ events[t][k].priority < events[t][k + 1].priority
        \/ /\ events[t][k].priority = events[t][k + 1].priority
           /\ events[t][k].command < events[t][k + 1].command

\* A fireEvent activation during which no handler was registered for its type
\* calls the handlers in order.
StaticDispatchInOrder ==
    ListsSorted /\ \A d \in Dispatches : d.added = {} => InOrder(d)

\* C1 as claimed: for any sequence of addListener calls on one event type, every
\* fireEvent activation calls the handlers in non-decreasing priority order, and
\* handlers of equal priority in the order they were registered.
C1_PriorityOrder ==
    \A d \in Dispatches : InOrder(d)

\* C2 as claimed: a handler registered for type T while a fireEvent(T) is in
\* progress is not invoked by that activation.
C2_AddedNotInvoked ==
    \A d \in Dispatches : Range(d.called) \cap d.added = {}

\* C3 as claimed: a fireEvent(T) that returns (no callback threw) has invoked
\* every handler that was registered for T when it started exactly once.
C3_EachStartHandlerOnce ==
    \A d \in Dispatches :
        (d.ended /\ ~d.threw) =>
            \A c \in Range(d.start) : Occurrences(d.called, c) = 1

(***************************************************************************)
(* Claims about the morph caches.                                          *)
(***************************************************************************)
\* The buffers of a morph object, read from its targets.
BuffersIn(morph) ==
    UNION {{morph.targets[i][b] : b \in DOMAIN morph.targets[i]} :
              i \in 1..Len(morph.targets)}

FailedCreate(op) == op.op = "create" /\ op.result = "allocation failure"

\* C4 as claimed: after a create that failed at an allocation, every buffer the
\* call allocated is destroyed and the resource id is not registered in the
\* current canvas' morph map.
C4_FailedCreateIdAbsent ==
    FailedCreate(last) =>
        /\ \A b \in last.allocated : buffers[b] = 1
        /\ ~Registered(canvasMorphs[currentMorphs], last.handle.resource)

\* C4 as amended: a create that fails at an allocation (at any target, any data
\* array) ends with the exception, has destroyed every buffer it allocated
\* exactly once, and registers nothing: every morph map, the morph objects and
\* the handles are as before the call, so the id is registered afterwards only
\* if an earlier create had registered it.
C4_FailedCreateRollsBack ==
    [][FailedCreate(last') =>
          /\ Len(buffers') >= Len(buffers)
          /\ last'.allocated = (Len(buffers) + 1)..Len(buffers')
          /\ \A b \in 1..Len(buffers') :
                buffers'[b] = IF b \in last'.allocated THEN 1 ELSE buffers[b]
          /\ canvasMorphs' = canvasMorphs
          /\ heap' = heap
          /\ handles' = handles
          /\ Registered(canvasMorphs'[currentMorphs], last'.handle.resource)
                => Registered(canvasMorphs[currentMorphs], last'.handle.resource)
      ]_vars

\* C4 witness: a create failed at the second data array of its second target,
\* after three allocations, with a generated resource id.
C4_Witness ==
    /\ FailedCreate(last)
    /\ Cardinality(last.allocated) = 3
    /\ last.handle.resource[1] = "m"
    /\ \A b \in last.allocated : buffers[b] = 1

\* C5 as claimed: the RESET listener ends without an error and leaves no morph
\* map, canvas and currentMorphs null and stackLen 0.
C5_ResetCompletes ==
    last.op = "reset" =>
        /\ last.result = "ok"
        /\ DOMAIN canvasMorphs = {}
        /\ canvas = Null
        /\ currentMorphs = Null
        /\ stackLen = 0

DestroyOf(op) == op.op = "destroy"

\* C6: destroy with a handle whose canvas has a morph map that holds no morph
\* under the handle's resource fails with 'morph not found' and changes no morph
\* map and no buffer; a destroy that succeeded, followed at once by a destroy
\* with the same handle, is followed by that failure.
C6_DestroyTwiceNotFound ==
    [][/\ (DestroyOf(last') /\ Tracked(last'.handle.canvasId)
             /\ ~MorphFound(last'.handle)) =>
            /\ last'.result = "morph not found"
            /\ canvasMorphs' = canvasMorphs
            /\ buffers' = buffers
       /\ (DestroyOf(last') /\ MorphFound(last'.handle)) => last'.result = "ok"
       /\ (DestroyOf(last) /\ last.result = "ok" /\ DestroyOf(last')
             /\ last'.handle = last.handle) => last'.result = "morph not found"
      ]_vars

\* C6 witness: a destroy failed with 'morph not found' for a handle that create
\* had returned and an earlier destroy had cleared.
C6_Witness ==
    /\ DestroyOf(last)
    /\ last.result = "morph not found"
    /\ last.handle \in handles
    /\ last.handle.resource \in DOMAIN canvasMorphs[last.handle.canvasId]
    /\ canvasMorphs[last.handle.canvasId][last.handle.resource].isNull

\* C7: a destroy that succeeds while the canvas is in the document calls destroy()
\* exactly once on every buffer of every target of the morph, on no other buffer,
\* and afterwards the map of that canvas holds no morph under the resource.
C7_DestroyReleasesAll ==
    [][(DestroyOf(last') /\ last'.result = "ok"
            /\ last'.handle.canvasId \in document) =>
          LET own == BuffersIn(heap[last'.morph])
          IN  /\ DOMAIN buffers' = DOMAIN buffers
              /\ \A b \in DOMAIN buffers :
                    IF b \in own
                    THEN buffers[b] = 0 /\ buffers'[b] = 1
                    ELSE buffers'[b] = buffers[b]
              /\ ~Registered(canvasMorphs'[last'.handle.canvasId],
                             last'.handle.resource)
      ]_vars

\* C7 witness: a morph with buffers in two targets was destroyed, its canvas in
\* the document, while another morph stays registered with its buffers alive.
C7_Witness ==
    /\ DestroyOf(last)
    /\ last.result = "ok"
    /\ last.handle.canvasId \in document
    /\ Cardinality(BuffersIn(heap[last.morph])) = 4
    /\ \A b \in BuffersIn(heap[last.morph]) : buffers[b] = 1
    /\ \E c \in DOMAIN canvasMorphs : \E m \in LiveMorphs(c) :
          /\ BuffersIn(heap[m]) # {}
          /\ \A b \in BuffersIn(heap[m]) : buffers[b] = 0

\* C8: destroy with a handle whose canvas has no morph map any more returns
\* silently: no error, no buffer destroyed, the morph maps, the stack and the
\* dirty flag unchanged.
C8_StaleSurfaceSilent ==
    [][(DestroyOf(last') /\ ~Tracked(last'.handle.canvasId)) =>
          /\ last'.result = "silent"
          /\ UNCHANGED <<canvasMorphs, buffers, idStack, morphStack, stackLen, dirty,
                         heap, canvas, currentMorphs>>
      ]_vars

\* C8 witness: after a reset that dropped the map of a pushed morph, destroy with
\* its handle returned silently; its buffers exist and the dirty flag is set.
C8_Witness ==
    /\ DestroyOf(last)
    /\ last.result = "silent"
    /\ last.handle \in handles
    /\ buffers # <<>>
    /\ DOMAIN morphStack # {}
    /\ dirty

(***************************************************************************)
(* Claims about the render-phase evaluation.                               *)
(***************************************************************************)
\* The SCENE_RENDERING listener has just handed the top frame to the shader.
Evaluated == last.op = "rendering" /\ last.calls = 1 /\ stackLen > 0

TopMorph == heap[morphStack[stackLen - 1]]

\* C9: for non-decreasing keys K of length N >= 2 and the factor f of the top
\* frame, the evaluation selects (0,1) when f <= K[0], else (N-2,N-1) when
\* f >= K[N-1], else a pair (i,i+1) with K[i] < f <= K[i+1]; the indices lie in
\* 0..N-1. Keys 0, 0.5, 1 with factor 0.2 give (0,1) and 0.4, with factor 1.5
\* give (1,2) and 1.0 (keys and factors in tenths).
C9_Bracketing ==
    Evaluated =>
        LET K == TopMorph.keys
            N == Len(K)
            f == TopMorph.factor
            i == shader.key1
        IN  /\ shader.args = "morph"
            /\ NonDecreasing(K) /\ N >= 2
            /\ shader.key1 \in 0..(N - 1)
            /\ shader.key2 \in 0..(N - 1)
            /\ f <= K[1] => (shader.key1 = 0 /\ shader.key2 = 1)
            /\ (f > K[1] /\ f >= K[N]) => (shader.key1 = N - 2 /\ shader.key2 = N - 1)
            /\ (f > K[1] /\ f < K[N]) =>
                  (shader.key2 = i + 1 /\ K[i + 1] < f /\ f <= K[i + 2])
            /\ shader.target1 = TopMorph.targets[shader.key1 + 1]
            /\ shader.target2 = TopMorph.targets[shader.key2 + 1]
            /\ (K = <<0, 5, 10>> /\ f = 2) =>
                  /\ shader.key1 = 0 /\ shader.key2 = 1
                  /\ shader.factor[2] # 0
                  /\ 10 * shader.factor[1] = 4 * shader.factor[2]
            /\ (K = <<0, 5, 10>> /\ f = 15) =>
                  /\ shader.key1 = 1 /\ shader.key2 = 2
                  /\ shader.factor[2] # 0
                  /\ shader.factor[1] = shader.factor[2]

\* C9 witness: three keys, the factor strictly between the second and the third:
\* the scan selects the second pair.
C9_Witness ==
    /\ Evaluated
    /\ Len(TopMorph.keys) = 3
    /\ TopMorph.keys[2] < TopMorph.factor
    /\ TopMorph.factor < TopMorph.keys[3]
    /\ shader.key1 = 1
    /\ shader.key2 = 2

\* C10 as claimed: for non-decreasing keys and any factor the normalized factor
\* handed to the shader has a non-zero denominator and lies in [0,1].
C10_NormalizedInUnitRange ==
    Evaluated =>
        /\ shader.factor[2] # 0
        /\ 0 <= shader.factor[1] * shader.factor[2]
        /\ shader.factor[1] * shader.factor[2] <= shader.factor[2] * shader.factor[2]

\* C11: when the interior scan runs (K[0] < f < K[N-1]) and the factor equals two
\* equal adjacent keys K[j] = K[j+1], the pair selected is (i,i+1) for the largest
\* i with K[i] < f, and never the pair (j,j+1) of the two equal keys.
C11_TieTakesEarlierPair ==
    Evaluated =>
        LET K == TopMorph.keys
            N == Len(K)
            f == TopMorph.factor
        IN  \A j \in 1..(N - 1) :
                (K[j] = K[j + 1] /\ f = K[j] /\ K[1] < f /\ f < K[N]) =>
                    /\ shader.key1 = Max({i \in 0..(N - 1) : K[i + 1] < f})
                    /\ shader.key2 = shader.key1 + 1
                    /\ shader.key1 # j - 1
                    /\ K[shader.key1 + 1] < f

\* C11 witness: four keys, the two interior keys equal and equal to the factor:
\* the first pair was selected.
C11_Witness ==
    /\ Evaluated
    /\ Len(TopMorph.keys) = 4
    /\ TopMorph.keys[1] < TopMorph.keys[2]
    /\ TopMorph.keys[2] = TopMorph.keys[3]
    /\ TopMorph.keys[3] < TopMorph.keys[4]
    /\ TopMorph.factor = TopMorph.keys[2]
    /\ shader.key1 = 0
    /\ shader.key2 = 1

\* C12 as claimed: the evaluation of the top frame uses the owner id and the blend
\* factor of that frame's own push (the factor of the node that pushed it), also
\* after an inner push of the same resource with another factor was popped.
C12_TopFrameKeepsItsFactor ==
    Evaluated =>
        LET id == idStack[stackLen - 1]
            frame == FindKeys(TopMorph.keys, Len(TopMorph.targets), AttrFactor(id))
        IN  /\ shader.id = id
            /\ shader.key1 = frame.key1
            /\ shader.key2 = frame.key2
            /\ shader.factor = NormalizedFactor(TopMorph.keys, frame)

\* C13 as claimed: in every reachable state the stack depth is >= 0 (a pop at
\* depth 0 is refused with an error).
C13_DepthNeverNegative ==
    stackLen >= 0

\* C14: a push that returns and a pop set the dirty flag; a SCENE_RENDERING event
\* with the flag set makes exactly one shader call, for the top frame (its owner
\* id and its two targets) or without arguments when the stack is empty, and
\* clears the flag; with the flag clear it makes no call and changes nothing.
C14_EvaluateOncePerDirty ==
    [][/\ (last'.op = "push" /\ last'.result = "ok") => dirty'
       /\ last'.op = "pop" => dirty'
       /\ (last'.op = "rendering" /\ dirty) =>
            /\ last'.calls = 1
            /\ ~dirty'
            /\ IF stackLen > 0
               THEN /\ shader'.args = "morph"
                    /\ shader'.id = idStack[stackLen - 1]
                    /\ shader'.target1 = TargetAt(TopMorph.targets, shader'.key1)
                    /\ shader'.target2 = TargetAt(TopMorph.targets, shader'.key2)
               ELSE shader'.args = "none"
       /\ (last'.op = "rendering" /\ ~dirty) =>
            /\ last'.calls = 0
            /\ shader' = shader
            /\ ~dirty'
      ]_vars

\* C14 witness: a SCENE_RENDERING event found the flag clear after an earlier one
\* had handed a pushed frame to the shader: no second call was made.
C14_Witness ==
    /\ last.op = "rendering"
    /\ last.calls = 0
    /\ ~dirty
    /\ stackLen > 0
    /\ shader.args = "morph"

(***************************************************************************)
(* Claims about RESET and surfaces that left the document.                 *)
(***************************************************************************)
\* Some cache holds a morph whose canvas element is gone.
GoneSurfaces == {c \in DOMAIN canvasMorphs : c \notin document /\ LiveMorphs(c) # {}}

\* What C20 asks of one RESET step.
ResetSkipsGone ==
    /\ last'.result = "ok"
    /\ DOMAIN canvasMorphs' = {}
    /\ currentMorphs' = Null
    /\ canvas' = Null
    /\ \A c \in GoneSurfaces : \A m \in LiveMorphs(c) :
          \A b \in BuffersIn(heap[m]) : buffers'[b] = buffers[b]

\* A RESET that meets no null entry skips the buffers of the surfaces that are
\* gone and clears the bookkeeping.
ResetOfLiveCachesSkipsGone ==
    [][(last'.op = "reset" /\ GoneSurfaces # {}
          /\ \A c \in DOMAIN canvasMorphs : ~HasNull(c)) => ResetSkipsGone]_vars

\* C20 as claimed: a RESET in a state where some resource's canvas element is
\* gone calls destroy() on none of that resource's buffers, clears every cache
\* and the current-surface pointer, and raises no error.
C20_ResetSkipsGoneSurfaces ==
    [][(last'.op = "reset" /\ GoneSurfaces # {}) => ResetSkipsGone]_vars

(***************************************************************************)
(* Claims about the morphGeometry nodes and the stream loads.              *)
(***************************************************************************)
WellFormed(morph) ==
    /\ Len(morph.targets) >= 2
    /\ Len(morph.keys) = Len(morph.targets)

\* In a traversal every pop follows its node's push: the depth stays >= 0.
NodePassesKeepDepth == stackLen >= 0

\* A morph that _preCompile creates, from the node's arrays or from its factory
\* function, has at least two targets and as many keys; data that has not is
\* refused with the configuration error before anything is created.
InlineAndFactoryWellFormed ==
    [][/\ (last'.op = "preCompile" /\ Len(heap') > Len(heap)) =>
              WellFormed(heap'[Len(heap')])
       /\ (last'.op \in {"init", "preCompile"} /\ last'.result = "config error") =>
              (canvasMorphs' = canvasMorphs /\ buffers' = buffers /\ heap' = heap)
      ]_vars

\* C15 as claimed: every morph registered in a cache, whatever its data came
\* from, has at least two targets and exactly as many keys as targets.
C15_RegisteredWellFormed ==
    \A c \in DOMAIN canvasMorphs : \A m \in LiveMorphs(c) : WellFormed(heap[m])

\* C16 as claimed: the continuation of a load whose node was destroyed in the
\* meantime allocates no buffer, registers nothing and leaves the node without
\* a handle.
C16_StaleLoadDropped ==
    [][(last'.op = "loaded" /\ nodes[last'.node].state = "destroyed") =>
          /\ buffers' = buffers
          /\ canvasMorphs' = canvasMorphs
          /\ nodes'[last'.node].handle = NoHandle
      ]_vars

\* C17 as claimed: the _preCompile that starts a stream load ends without a handle
\* and without a push; the continuation, when it fires for a live node, registers
\* the morph, stores the handle and calls nodeUpdated, and the handle is valid at
\* the node's next pass: it names the canvas of the node's scene, whose cache
\* holds the morph.
C17_LoadedHandleValid ==
    [][/\ (/\ last'.op = "preCompile" /\ last'.result = "ok"
           /\ nodes[last'.node].kind = "stream"
           /\ nodes[last'.node].handle = NoHandle) =>
              /\ ~last'.pushed
              /\ nodes'[last'.node].handle = NoHandle
              /\ stackLen' = stackLen
       /\ (last'.op = "loaded" /\ nodes[last'.node].state = "live") =>
              /\ last'.result = "ok"
              /\ last'.notified
              /\ nodes'[last'.node].handle.canvasId = nodes[last'.node].scene
              /\ nodes[last'.node].scene \in DOMAIN canvasMorphs'
              /\ Registered(canvasMorphs'[nodes[last'.node].scene],
                            nodes'[last'.node].handle.resource)
      ]_vars

\* A continuation that fires for a live node while the canvas of the node's scene
\* is the current one registers the morph there, stores the handle that names it
\* and calls nodeUpdated.
LoadOnOwnSurfaceValid ==
    [][(/\ last'.op = "loaded"
        /\ nodes[last'.node].state = "live"
        /\ canvas = nodes[last'.node].scene) =>
          /\ last'.result = "ok"
          /\ last'.notified
          /\ nodes'[last'.node].handle.canvasId = nodes[last'.node].scene
          /\ Registered(canvasMorphs'[nodes[last'.node].scene],
                        nodes'[last'.node].handle.resource)
      ]_vars

\* C18 as claimed: a create never overwrites an entry: a resource id that holds a
\* morph holds the same morph after every step in which it still holds one (so no
\* second create yields the handle of a morph that is still registered).
C18_GeneratedIdsUnique ==
    [][\A c \in DOMAIN canvasMorphs : \A r \in DOMAIN canvasMorphs[c] :
          (/\ c \in DOMAIN canvasMorphs'
           /\ Registered(canvasMorphs[c], r)
           /\ Registered(canvasMorphs'[c], r)) =>
              canvasMorphs'[c][r] = canvasMorphs[c][r]
      ]_vars

\* C19 as claimed: _destroy of a node whose handle another live node holds too
\* destroys no buffer and leaves every cache as it is.
C19_SharedResourceSurvives ==
    [][(/\ last'.op = "nodeDestroy"
        /\ last'.handle # NoHandle
        /\ \E n \in NodeIds \ {last'.node} :
              nodes[n].state = "live" /\ nodes[n].handle = last'.handle) =>
          /\ buffers' = buffers
          /\ canvasMorphs' = canvasMorphs
      ]_vars

\* C21: the SCENE_COMPILING listener makes an empty map for its canvas only when
\* the canvas has none; the map of every canvas that had one, the activated canvas
\* included, is unchanged, and so are the morphs and the buffers; afterwards the
\* current map is the map of the activated canvas and the stack depth is 0.
C21_ActivationIdempotent ==
    [][last'.op = "compiling" =>
          /\ DOMAIN canvasMorphs' = DOMAIN canvasMorphs \cup {canvas'}
          /\ \A c \in DOMAIN canvasMorphs : canvasMorphs'[c] = canvasMorphs[c]
          /\ canvas' \notin DOMAIN canvasMorphs => DOMAIN canvasMorphs'[canvas'] = {}
          /\ currentMorphs' = canvas'
          /\ stackLen' = 0
          /\ heap' = heap
          /\ buffers' = buffers
      ]_vars

\* C21 witness: a canvas that holds a morph has just been activated again, after a
\* push and while the other canvas holds a morph too.
C21_Witness ==
    /\ last.op = "compiling"
    /\ DOMAIN canvasMorphs = CanvasIds
    /\ \A c \in CanvasIds : LiveMorphs(c) # {}
    /\ DOMAIN morphStack # {}
    /\ stackLen = 0

(***************************************************************************)
(* Claims about exceptions, nested dispatch and the documented priorities  *)
(* of the event bus.                                                       *)
(***************************************************************************)
\* The step in which a callback throws: the activation on top of the stack is
\* left while its callback is running.
ThrowStep ==
    /\ callStack # <<>>
    /\ Last(callStack).inCall
    /\ Len(callStack') = Len(callStack) - 1

\* The index of a command in the handler list of its type
IndexOf(type, command) ==
    CHOOSE k \in 1..Len(events[type]) : events[type][k].command = command

\* C24: when a callback throws, the fireEvent activation that called it ends at
\* once with the exception (control is back in its caller, the activations below
\* are as they were), so the failing handler is the last one the activation
\* invoked; when no handler was registered for the type during the activation,
\* no handler that stands after the failing one in the list was invoked by it;
\* and every handler list is unchanged.
C24_ThrowAbortsDispatch ==
    [][ThrowStep =>
          LET frame == Last(callStack)
              failing == Last(frame.called)
          IN  /\ callStack' = SubSeq(callStack, 1, Len(callStack) - 1)
              /\ done'.threw
              /\ done'.type = frame.type
              /\ done'.called = frame.called
              /\ events' = events
              /\ frame.added = {} =>
                     \A k \in 1..Len(events[frame.type]) :
                         k > IndexOf(frame.type, failing) =>
                             events[frame.type][k].command \notin Range(done'.called)
      ]_vars

\* C24 witness: an activation ended with the exception of its second handler,
\* with a third handler registered after it; the caller was a callback of an
\* activation that is still in progress.
C24_Witness ==
    /\ done.threw
    /\ done.added = {}
    /\ Len(done.called) = 2
    /\ Len(events[done.type]) > IndexOf(done.type, Last(done.called))
    /\ callStack # <<>>
    /\ Last(callStack).inCall

\* The step in which a nested fireEvent returns to the callback that called it
NestedReturn ==
    /\ Len(callStack) >= 2
    /\ ~Last(callStack).inCall
    /\ Len(callStack') = Len(callStack) - 1

\* The handlers an activation whose callback is running has still to call: those
\* behind list[i]
Remaining(frame) ==
    {events[frame.type][k].command : k \in (frame.i + 2)..Len(events[frame.type])}

\* While a nested activation is on the stack, the activations below it call no
\* handler.
OuterWaits ==
    \A k \in 1..(Len(callStack) - 1) :
        k \in 1..Len(callStack') =>
            /\ callStack'[k].called = callStack[k].called
            /\ callStack'[k].i = callStack[k].i

\* What the claim says of a nested fireEvent(B) that returns into a callback of
\* fireEvent(A): every handler of B was invoked, once and in B's order, and the
\* handlers A has still to call are the handlers A started with and has not
\* called yet.
NestedComplete(inner, outer) ==
    /\ InOrder(Finished(inner, FALSE))
    /\ \A k \in 1..Len(events[inner.type]) :
           Occurrences(inner.called, events[inner.type][k].command) = 1
    /\ Remaining(outer) = Range(outer.start) \ Range(outer.called)

\* C25 as claimed: a fireEvent(B) called by a callback of fireEvent(A) invokes
\* every handler of B, in B's priority order, before the next handler of A is
\* invoked, and A then goes on with exactly its handlers that had not yet run.
C25_NestedDispatchCompletes ==
    [][/\ OuterWaits
       /\ NestedReturn =>
              NestedComplete(Last(callStack), callStack[Len(callStack) - 1])
      ]_vars

\* The same, for nested dispatches during which no handler was registered for A
\* or for B.
NestedDispatchWithoutRegistration ==
    [][/\ OuterWaits
       /\ (/\ NestedReturn
           /\ Last(callStack).added = {}
           /\ callStack[Len(callStack) - 1].added = {}) =>
              NestedComplete(Last(callStack), callStack[Len(callStack) - 1])
      ]_vars

\* The step addListener(type, command, priority) with the command that is new
AddStep(type) == nextCommand' = nextCommand + 1 /\ events'[type] # events[type]

\* The handler the step has registered
Added(type) ==
    events'[type][CHOOSE k \in 1..Len(events'[type]) :
                      events'[type][k].command = nextCommand]

\* C26 as claimed (the comment of addListener, lines 69-73): with n handlers
\* registered for the type, a handler added with priority <= 0 stands first in
\* the list fireEvent walks through, and one added with priority >= n stands
\* last, whatever the priorities of the handlers already registered.
C26_DocumentedPlacement ==
    [][\A t \in EventTypes : AddStep(t) =>
          LET n == Len(events[t])
          IN  /\ Added(t).priority <= 0 => events'[t][1] = Added(t)
              /\ Added(t).priority >= n => events'[t][n + 1] = Added(t)
      ]_vars

\* What lines 89-95 do: the new handler stands behind every handler whose
\* priority is less or equal and before every handler whose priority is greater.
PlacedByPriority ==
    [][\A t \in EventTypes : AddStep(t) =>
          \A k \in 1..Len(events'[t]) :
              LET other == events'[t][k]
                  mine == CHOOSE j \in 1..Len(events'[t]) : events'[t][j] = Added(t)
              IN  /\ (other.command # nextCommand /\ other.priority <= Added(t).priority)
                         => k < mine
                  /\ other.priority > Added(t).priority => k > mine
      ]_vars

(***************************************************************************)
(* Claims about the isolation of the caches and about the buffers.         *)
(***************************************************************************)
\* The caches of the canvases other than `surface` are as they were
OthersUntouched(surface) ==
    \A c \in DOMAIN canvasMorphs \ {surface} :
        c \in DOMAIN canvasMorphs' /\ canvasMorphs'[c] = canvasMorphs[c]

\* The create of node n, begun while `surface` was current, has registered its
\* morph in the cache of `surface` alone and given the node a handle that names
\* `surface`.
CreatedOn(n, surface) ==
    /\ nodes'[n].handle.canvasId = surface
    /\ surface \in DOMAIN canvasMorphs'
    /\ Registered(canvasMorphs'[surface], nodes'[n].handle.resource)
    /\ OthersUntouched(surface)

\* C27 as claimed: a create begun while the canvas of the node's scene was
\* current, inline in the node's _preCompile or through a load whose continuation
\* fires later, whatever was activated or reset in between, registers its morph
\* in the cache of that canvas alone and yields a handle that names that canvas.
C27_SurfacesIsolated ==
    [][/\ (last'.op = "preCompile" /\ last'.result = "ok" /\ last'.created) =>
              CreatedOn(last'.node, nodes[last'.node].scene)
       /\ last'.op = "loaded" =>
              /\ last'.result = "ok"
              /\ CreatedOn(last'.node, nodes[last'.node].scene)
      ]_vars

\* The inline create does so, and so does a continuation that fires while the
\* canvas of the node's scene is current.
CreateOnCurrentIsolated ==
    [][/\ (last'.op = "preCompile" /\ last'.result = "ok" /\ last'.created) =>
              CreatedOn(last'.node, nodes[last'.node].scene)
       /\ (last'.op = "loaded" /\ canvas = nodes[last'.node].scene) =>
              /\ last'.result = "ok"
              /\ CreatedOn(last'.node, nodes[last'.node].scene)
      ]_vars

\* The buffers of the targets of the morphs that some cache holds
RegisteredBuffers ==
    UNION {MorphBuffers(heap[m]) : m \in UNION {LiveMorphs(c) : c \in DOMAIN canvasMorphs}}

\* Every buffer that was allocated and not destroyed belongs to a registered
\* morph, and no buffer was destroyed twice.
NoLeak ==
    /\ \A b \in 1..Len(buffers) : buffers[b] = 0 => b \in RegisteredBuffers
    /\ \A b \in 1..Len(buffers) : buffers[b] <= 1

\* C28 as claimed: while every canvas is in the document, after any activations,
\* creates (with generated or explicit ids, succeeding or failing), destroys and
\* resets, every live buffer belongs to a registered morph and no buffer was
\* destroyed twice.
C28_NoBufferLeaks ==
    document = CanvasIds => NoLeak

\* A create that registers its morph under an id the current cache holds a
\* morph for
Overwrites ==
    /\ last'.op = "create"
    /\ last'.result = "ok"
    /\ Registered(canvasMorphs[last'.handle.canvasId], last'.handle.resource)

\* Only such a create makes a leak: every other step with every canvas in the
\* document keeps NoLeak.
LeaksOnlyByOverwrite ==
    [][(NoLeak /\ document' = CanvasIds /\ ~Overwrites) => NoLeak']_vars

(***************************************************************************)
(* Claims about the camera node.                                           *)
(***************************************************************************)
\* getMatrix or _preCompile has returned
Reads(op) == op.op \in {"getMatrix", "cameraPreCompile"} /\ op.result = "ok"

\* setOptics has been called, by _init or later
Sets(op) == op.op \in {"cameraInit", "setOptics"}

\* C22: a getMatrix or _preCompile rebuilds once when it is the first after the
\* construction or after a setOptics that succeeded, and not at all otherwise;
\* without a rebuild the matrix is equal to the one returned or pushed before;
\* the matrix, and the transform _preCompile pushes, are those of the optics
\* set last.
C22_RebuildOncePerChange ==
    [][Reads(last') =>
          /\ last'.rebuilds = IF camera.changed THEN 1 ELSE 0
          /\ ~camera.changed => last'.matrix = camera.returned
          /\ last'.matrix = TransformOf(camera.optics, NoTransform).matrix
          /\ last'.op = "cameraPreCompile" =>
                 Last(projection').transform = TransformOf(camera.optics, NoTransform)
      ]_vars

\* C22 witness: getMatrix returned the ortho matrix without a rebuild, while the
\* transform pushed by the traversal in progress is still the perspective one:
\* the optics were set in between and one read has rebuilt since.
C22_Witness ==
    /\ last.op = "getMatrix"
    /\ last.result = "ok"
    /\ last.rebuilds = 0
    /\ last.matrix.fn = "orthoMat4c"
    /\ projection # <<>>
    /\ projection[1].transform.type = "perspective"

IllegalNodeConfig ==
    {"ILLEGAL_NODE_CONFIG: optics type not specified",
     "ILLEGAL_NODE_CONFIG: optics type not supported"}

\* C23: setOptics, in _init or later, with optics of no type or of a type that is
\* not one of the three throws ILLEGAL_NODE_CONFIG and leaves the node as it was
\* (no node, when thrown in _init), and succeeds otherwise; so a camera that
\* exists has optics of one of the three types, and every getMatrix and
\* _preCompile returns with a transform of that type.
C23_InvalidTypeRejected ==
    [][/\ Sets(last') =>
              IF last'.supplied.given /\ last'.supplied.type \notin OpticsTypes
              THEN last'.result \in IllegalNodeConfig /\ camera' = camera
              ELSE last'.result = "ok"
       /\ camera'.state = "live" => camera'.optics.type \in OpticsTypes
       /\ last'.op \in {"getMatrix", "cameraPreCompile"} =>
              /\ last'.result = "ok"
              /\ camera'.transform # NoTransform
              /\ camera'.transform.type = camera.optics.type
      ]_vars

\* C23 witness: setOptics has thrown on a camera whose transform was built; the
\* memo level is still 1.
C23_Witness ==
    /\ last.op = "setOptics"
    /\ last.result \in IllegalNodeConfig
    /\ camera.state = "live"
    /\ camera.memo = 1
    /\ camera.transform.type = "frustum"

\* C29 as claimed: after a setOptics that succeeded, getOptics returns, for every
\* field of the type, the number that was supplied for it, 0 included, and the
\* default only for a field that was not supplied.
C29_OpticsRoundTrip ==
    [][(Sets(last') /\ last'.result = "ok" /\ last'.supplied.given) =>
          \A f \in FieldsOf(last'.supplied.type) :
              GetOpticsOf(camera').fields[f] =
                  IF f \in DOMAIN last'.supplied.fields
                  THEN last'.supplied.fields[f]
                  ELSE Default(last'.supplied.type, f)
      ]_vars

\* The round trip of the numbers other than 0, and the defaults of the fields
\* that were not supplied
RoundTripOfNonZero ==
    [][(Sets(last') /\ last'.result = "ok" /\ last'.supplied.given) =>
          \A f \in FieldsOf(last'.supplied.type) :
              IF f \in DOMAIN last'.supplied.fields
              THEN last'.supplied.fields[f] # 0 =>
                       GetOpticsOf(camera').fields[f] = last'.supplied.fields[f]
              ELSE GetOpticsOf(camera').fields[f] = Default(last'.supplied.type, f)
      ]_vars

====
